---------------------------- MODULE Spec2Model ----------------------------
(***************************************************************************)
(* Model of rp/report.go: loading a directory of JUnit XML reports         *)
(* (LoadXMLReport / parseXMLReport) and the index-addressed query methods  *)
(* of XMLReport.                                                           *)
(*                                                                         *)
(* Encodings.                                                              *)
(*   - a Go string that the code inspects character by character (a file   *)
(*     name) is a sequence of one-character strings;                       *)
(*   - a timestamp attribute "YYYY-MM-DDTHH:MM:SS" of one fixed date is    *)
(*     the sequence <<HH, MM, SS>> of its time fields;                     *)
(*   - a time.Time is an integer number of milliseconds since the          *)
(*     midnight of that date; a time.Duration is a number of milliseconds; *)
(*   - a float64 number of seconds is fixed-point, in tenths of a second;  *)
(*   - slice indices are 0-based as in the code, s[k] is Index(s, k);      *)
(*   - a call that panics yields Panic(msg) instead of Ok(value).          *)
(***************************************************************************)
EXTENDS Integers, Sequences, FiniteSets

VARIABLES
    dirName,      \* the argument of LoadXMLReport
    fs,           \* the file system under dirName: [listable, entries]
    pc,           \* "idle" | "loop" | "returned" | "panicked"
    files,        \* parseXMLReport: files (result of ioutil.ReadDir)
    i,            \* parseXMLReport: loop index i
    xSuites,      \* parseXMLReport: xSuites
    deferred,     \* parseXMLReport: stack of deferred xmlFile.Close() receivers
    openHandles,  \* the *os.File values that are open
    openCalls,    \* indices of the files os.Open was called on
    readDirCalls, \* number of ioutil.ReadDir calls made
    report,       \* LoadXMLReport: returned *XMLReport (NULL is nil)
    err,          \* LoadXMLReport: returned error (NULL is nil)
    result        \* the last query method called on report and what it gave

vars == <<dirName, fs, pc, files, i, xSuites, deferred, openHandles,
          openCalls, readDirCalls, report, err, result>>

loadVars == <<dirName, fs, files, i, xSuites, deferred, openHandles,
              openCalls, readDirCalls, report, err>>

NULL == [nil |-> TRUE]

-----------------------------------------------------------------------------
(* Bounds *)

\* largest number of entries in the directory
MaxFiles == 3

\* largest number of testcase elements in one report file
MaxCases == 2

-----------------------------------------------------------------------------
(* Go runtime: results, panics, slices *)

Ok(v)      == [panic |-> "none", val |-> v]
Panic(msg) == [panic |-> msg]
IsPanic(o) == o.panic # "none"

IndexPanic == Panic("index out of range")
NilPanic   == Panic("nil pointer dereference")

InRange(s, k) == k >= 0 /\ k < Len(s)
Index(s, k)   == s[k + 1]

-----------------------------------------------------------------------------
(* Time *)

\* time.Time{}: what time.Parse leaves when it fails (0001-01-01T00:00:00)
ZeroTime == -1000000000

\* the timestamp has the layout xmlTimestampLayout
WellFormedTimeStamp(ts) ==
    /\ Len(ts) = 3
    /\ ts[1] \in 0..23
    /\ ts[2] \in 0..59
    /\ ts[3] \in 0..59

parseTimeStamp(ts) ==
    IF WellFormedTimeStamp(ts)
    THEN ((ts[1] * 60 + ts[2]) * 60 + ts[3]) * 1000
    ELSE ZeroTime

secondsToDuration(sec) == IF sec < 0 THEN 0 ELSE sec * 100

\* time.Time.Before
Before(t1, t2) == t1 < t2

\* time.Time.Add
Add(t, d) == t + d

-----------------------------------------------------------------------------
(* File names *)

DotXml == <<".", "x", "m", "l">>

RECURSIVE LastDot(_, _)
LastDot(name, k) ==
    IF k = 0 THEN 0
    ELSE IF name[k] = "." THEN k
    ELSE LastDot(name, k - 1)

\* filepath.Ext: the suffix beginning at the final dot, empty if there is no dot
Ext(name) ==
    LET k == LastDot(name, Len(name))
    IN  IF k = 0 THEN <<>> ELSE SubSeq(name, k, Len(name))


-----------------------------------------------------------------------------
(* Report files: what xml.Unmarshal decodes *)

\* the failure element of a failed testcase
Failure1 == [Type |-> "AssertionError", Message |-> "expected 1 got 2",
             Details |-> "at Test.java:7"]

\* xmlTest.Time values: missing (0) and 1.5 s
CaseTimes == {0, 15}

XmlTests == [Name : {"case"}, Time : CaseTimes, Failure : {NULL, Failure1}]

RECURSIVE SeqsUpTo(_, _)
SeqsUpTo(S, n) ==
    IF n = 0 THEN {<<>>}
    ELSE LET shorter == SeqsUpTo(S, n - 1)
         IN  shorter \cup {Append(s, e) : s \in {t \in shorter : Len(t) = n - 1}, e \in S}

\* timestamp attributes: 10:00:00, 10:00:01, seconds out of range, missing
T1 == <<10, 0, 0>>
T2 == <<10, 0, 1>>
BadTimeStamp == <<10, 0, 60>>
NoTimeStamp  == <<>>

xmlSuite(ts, time, tests, failures, errs, cases) ==
    [ID |-> 7, Name |-> "LoginTest", PackageName |-> "com.acme",
     TimeStamp |-> ts, Time |-> time,
     Tests |-> tests, Failures |-> failures, Errors |-> errs, Cases |-> cases]

\* suites that differ in start and duration only (0.5 s and 3 s)
PlainSuites ==
    {xmlSuite(ts, time, 1, 0, 0, <<>>) : ts \in {T1, T2, BadTimeStamp}, time \in {5, 30}}

\* suites that differ in their counters; the time attribute may be negative
CounterSuites ==
    {xmlSuite(ts, time, tests, failures, errs, <<>>) :
        ts \in {T1, NoTimeStamp}, time \in {-10, 0, 15},
        tests \in {0, 5}, failures \in {0, 1}, errs \in {0, 2}}

\* suites that differ in their test cases
CaseSuites ==
    {xmlSuite(ts, 30, Len(cases), 0, 0, cases) :
        ts \in {T1, T2, BadTimeStamp}, cases \in SeqsUpTo(XmlTests, MaxCases)}

-----------------------------------------------------------------------------
(* Directories: what ioutil.ReadDir, os.Open, ioutil.ReadAll and            *)
(* xml.Unmarshal meet.  An entry is [name, isDir, fault, content]: fault is *)
(* the step that fails on the file ("open", "read", "decode") or "none",    *)
(* content is what xSuite holds after xml.Unmarshal.                        *)

\* var xSuite xmlSuite: what xSuite holds when nothing was decoded into it
ZeroSuite ==
    [ID |-> 0, Name |-> "", PackageName |-> "", TimeStamp |-> <<>>, Time |-> 0,
     Tests |-> 0, Failures |-> 0, Errors |-> 0, Cases |-> <<>>]

RECURSIVE Stem(_)
\* ReadDir returns the entries sorted by name: the k-th name starts with k f's
Stem(k) == IF k = 0 THEN <<>> ELSE <<"f">> \o Stem(k - 1)

OtherExts == {<<>>, <<".", "X", "M", "L">>, DotXml \o <<".", "t", "x", "t">>}

Entry(name, isDir, fault, content) ==
    [name |-> name, isDir |-> isDir, fault |-> fault, content |-> content]

EntriesAt(k, suites) ==
         {Entry(Stem(k) \o e, FALSE, "none", ZeroSuite) : e \in OtherExts}
    \cup {Entry(Stem(k) \o DotXml, TRUE, "none", ZeroSuite)}
    \cup {Entry(Stem(k) \o DotXml, FALSE, f, ZeroSuite) : f \in {"open", "read", "decode"}}
    \cup {Entry(Stem(k) \o DotXml, FALSE, "none", s) : s \in suites}

\* a file named ".xml" sorts before every other name
HiddenXml == Entry(DotXml, FALSE, "none", xmlSuite(T2, 5, 1, 0, 0, <<>>))

RECURSIVE Listings(_, _)
Listings(n, suites) ==
    IF n = 0 THEN {<<>>}
    ELSE {Append(l, e) : l \in Listings(n - 1, suites), e \in EntriesAt(n, suites)}

\* directories of report files and other entries, in every order of contents
LoaderDirs ==
    (UNION {Listings(n, PlainSuites) : n \in 0..MaxFiles})
    \cup {<<HiddenXml>> \o l : l \in Listings(MaxFiles - 1, {xmlSuite(T1, 30, 1, 0, 0, <<>>)})}

\* directories of one detailed report file, alone or beside a plain one
FacadeDirs ==
    LET detailed == {Entry(Stem(1) \o DotXml, FALSE, "none", s) :
                        s \in CounterSuites \cup CaseSuites}
        plain    == {Entry(Stem(2) \o DotXml, FALSE, "none", s) :
                        s \in {p \in PlainSuites : p.Time = 5}}
    IN       {<<d>> : d \in detailed}
        \cup {<<d, p>> : d \in detailed, p \in plain}
        \cup {<<p, d>> : d \in detailed, p \in plain}

Listable(entries) == [listable |-> TRUE, entries |-> entries]
Unlistable        == [listable |-> FALSE, entries |-> <<>>]

-----------------------------------------------------------------------------
(* parseXMLReport *)

\* the entry is passed over as "not report file"
NotReportFile(f) == Ext(f.name) # DotXml \/ f.isDir

\* the *os.File os.Open gives for the entry at index k
File(k) == [fd |-> k]

\* os.Open gives a nil *os.File together with its error
OpenFails(f) == f.fault = "open"

\* mutant: the "continue" after a failed xml.Unmarshal is missing
SkippedUnlessDecodeFails(f) == f.fault \in {"open", "read"}

\* the candidate file is dropped by one of the three "continue"s
Skipped(f) == f.fault \in {"open", "read", "decode"}

\* mutant: the comparison is the wrong way round
LessReversed(a, b) == Before(parseTimeStamp(b.TimeStamp), parseTimeStamp(a.TimeStamp))

\* the less function handed to sort.Slice
Less(a, b) == Before(parseTimeStamp(a.TimeStamp), parseTimeStamp(b.TimeStamp))

Permutations(n) == {p \in [1..n -> 1..n] : \A a, b \in 1..n : a # b => p[a] # p[b]}

\* sort.Slice is not stable: any arrangement of s that less cannot fault
SortSlice(s) ==
    {[k \in 1..Len(s) |-> s[p[k]]] : p \in
        {q \in Permutations(Len(s)) :
            \A a, b \in 1..Len(s) : a < b => ~Less(s[q[b]], s[q[a]])}}

\* mutant: one Close deferred outside the loop, on the last file opened
RunLastDeferredOnly(open, stack) ==
    IF stack = <<>> \/ stack[1] = NULL THEN open ELSE open \ {stack[1]}

\* the deferred Close calls run when parseXMLReport returns; Close on a nil
\* *os.File returns an error and touches nothing
RunDeferred(open, stack) ==
    open \ {stack[k] : k \in {m \in 1..Len(stack) : stack[m] # NULL}}

\* errors.New("report dir could not be empty") and the error of ioutil.ReadDir
ErrEmptyDir == [error |-> "report dir could not be empty"]
ErrReadDir  == [error |-> "open reports: no such file or directory"]

\* mutant: the handle is built whether or not parseXMLReport failed
LoadResultAlwaysHandle(suites, e) == [report |-> [xmlSuites |-> suites], err |-> e]

\* LoadXMLReport's two return statements
LoadResult(suites, e) ==
    IF e # NULL
    THEN [report |-> NULL, err |-> e]
    ELSE [report |-> [xmlSuites |-> suites], err |-> NULL]

\* lines 191-200: the checks before the loop
ParseBegin ==
    /\ pc = "idle"
    /\ IF Len(dirName) = 0
       THEN /\ report' = LoadResult(<<>>, ErrEmptyDir).report
            /\ err' = LoadResult(<<>>, ErrEmptyDir).err
            /\ pc' = "returned"
            /\ UNCHANGED <<files, i, xSuites, readDirCalls>>
       ELSE /\ readDirCalls' = readDirCalls + 1
            /\ IF ~fs.listable
               THEN /\ report' = LoadResult(<<>>, ErrReadDir).report
                    /\ err' = LoadResult(<<>>, ErrReadDir).err
                    /\ pc' = "returned"
                    /\ UNCHANGED <<files, i, xSuites>>
               ELSE /\ files' = fs.entries
                    /\ i' = 0
                    /\ xSuites' = <<>>
                    /\ pc' = "loop"
                    /\ UNCHANGED <<report, err>>
    /\ UNCHANGED <<dirName, fs, deferred, openHandles, openCalls, result>>

\* lines 202-230: one iteration of the loop
LoopBody ==
    /\ pc = "loop"
    /\ i < Len(files)
    /\ LET f == Index(files, i)
       IN  IF NotReportFile(f)
           THEN UNCHANGED <<xSuites, deferred, openHandles, openCalls>>
           ELSE /\ openCalls' = openCalls \cup {i}
                /\ openHandles' = IF OpenFails(f) THEN openHandles
                                  ELSE openHandles \cup {File(i)}
                /\ deferred' = <<IF OpenFails(f) THEN NULL ELSE File(i)>> \o deferred
                /\ xSuites' = IF Skipped(f) THEN xSuites
                              ELSE Append(xSuites, f.content)
    /\ i' = i + 1
    /\ UNCHANGED <<dirName, fs, pc, files, readDirCalls, report, err, result>>

\* lines 232-239 and 59-64: sort, run the deferred calls, return
ParseEnd ==
    /\ pc = "loop"
    /\ i >= Len(files)
    /\ \E sorted \in SortSlice(xSuites) :
          /\ xSuites' = sorted
          /\ report' = LoadResult(sorted, NULL).report
          /\ err' = LoadResult(sorted, NULL).err
    /\ openHandles' = RunDeferred(openHandles, deferred)
    /\ deferred' = <<>>
    /\ pc' = "returned"
    /\ UNCHANGED <<dirName, fs, files, i, openCalls, readDirCalls, result>>

LoadXMLReport == ParseBegin \/ LoopBody \/ ParseEnd

-----------------------------------------------------------------------------
(* XMLReport's methods.  r is the receiver; a nil receiver or an index out  *)
(* of range panics.                                                         *)

\* r.xmlSuites[k] can be evaluated
HasSuite(r, k) == r # NULL /\ InRange(r.xmlSuites, k)

\* why r.xmlSuites[k] panics when it does
SuitePanic(r) == IF r = NULL THEN NilPanic ELSE IndexPanic

\* r.xmlSuites[k].Cases[j] can be evaluated
HasCase(r, k, j) == HasSuite(r, k) /\ InRange(Index(r.xmlSuites, k).Cases, j)

SuitesCount(r) == IF r = NULL THEN NilPanic ELSE Ok(Len(r.xmlSuites))

TesCaseCount(r, k) ==
    IF ~HasSuite(r, k) THEN SuitePanic(r)
    ELSE Ok(Len(Index(r.xmlSuites, k).Cases))

\* mutant: no suite gives the zero time instead of a panic
LaunchStartTimeOrZero(r) ==
    IF r = NULL THEN NilPanic
    ELSE IF ~InRange(r.xmlSuites, 0) THEN Ok(ZeroTime)
    ELSE Ok(parseTimeStamp(Index(r.xmlSuites, 0).TimeStamp))

LaunchStartTime(r) ==
    IF ~HasSuite(r, 0) THEN SuitePanic(r)
    ELSE Ok(parseTimeStamp(Index(r.xmlSuites, 0).TimeStamp))

RECURSIVE MaxEnd(_, _)
MaxEnd(suites, n) ==
    IF n = 0 THEN ZeroTime
    ELSE LET rest == MaxEnd(suites, n - 1)
             end  == Add(parseTimeStamp(suites[n].TimeStamp), secondsToDuration(suites[n].Time))
         IN  IF end > rest THEN end ELSE rest

\* mutant: the latest end over all suites
LaunchEndTimeMax(r) ==
    IF r = NULL THEN NilPanic
    ELSE IF r.xmlSuites = <<>> THEN IndexPanic
    ELSE Ok(MaxEnd(r.xmlSuites, Len(r.xmlSuites)))

LaunchEndTime(r) ==
    IF r = NULL THEN NilPanic
    ELSE LET lastIndex == Len(r.xmlSuites) - 1
         IN  IF ~HasSuite(r, lastIndex) THEN IndexPanic
             ELSE LET lastSuiteStart == parseTimeStamp(Index(r.xmlSuites, lastIndex).TimeStamp)
                      d == secondsToDuration(Index(r.xmlSuites, lastIndex).Time)
                  IN  Ok(Add(lastSuiteStart, d))

Suite(r, k) ==
    IF ~HasSuite(r, k) THEN SuitePanic(r)
    ELSE LET xSuite == Index(r.xmlSuites, k)
             suiteStart == parseTimeStamp(xSuite.TimeStamp)
         IN  Ok([Type |-> "SUITE",
                 StartTime |-> suiteStart,
                 Name |-> <<xSuite.PackageName, ".", xSuite.Name>>,
                 Description |-> <<"SUITE", xSuite.ID>>])

\* mutant: the failure counters are looked at before the test count
SuiteResultFailuresFirst(r, k) ==
    IF ~HasSuite(r, k) THEN SuitePanic(r)
    ELSE LET xSuite == Index(r.xmlSuites, k)
             suiteEnd == Add(parseTimeStamp(xSuite.TimeStamp), secondsToDuration(xSuite.Time))
             status == IF xSuite.Failures > 0 THEN "FAILED"
                       ELSE IF xSuite.Errors > 0 THEN "FAILED"
                       ELSE IF xSuite.Tests = 0 THEN "SKIPPED"
                       ELSE "PASSED"
         IN  Ok([EndTime |-> suiteEnd, Status |-> status])

SuiteResult(r, k) ==
    IF ~HasSuite(r, k) THEN SuitePanic(r)
    ELSE LET xSuite == Index(r.xmlSuites, k)
             suiteStart == parseTimeStamp(xSuite.TimeStamp)
             d == secondsToDuration(xSuite.Time)
             suiteEnd == Add(suiteStart, d)
             status == IF xSuite.Tests = 0 THEN "SKIPPED"
                       ELSE IF xSuite.Failures > 0 THEN "FAILED"
                       ELSE IF xSuite.Errors > 0 THEN "FAILED"
                       ELSE "PASSED"
         IN  Ok([EndTime |-> suiteEnd, Status |-> status])

TestCase(r, k, j) ==
    IF ~HasSuite(r, k) THEN SuitePanic(r)
    ELSE IF ~HasCase(r, k, j) THEN IndexPanic
    ELSE LET xSuite == Index(r.xmlSuites, k)
             suiteStart == parseTimeStamp(xSuite.TimeStamp)
             xCase == Index(xSuite.Cases, j)
         IN  Ok([Type |-> "STEP", Name |-> xCase.Name, StartTime |-> suiteStart])

\* mutant: the case ends at the launch start (suite 0) plus its duration
TestCaseResultFromFirstSuite(r, k, j) ==
    IF ~HasSuite(r, k) THEN SuitePanic(r)
    ELSE IF ~HasCase(r, k, j) THEN IndexPanic
    ELSE LET xCase == Index(Index(r.xmlSuites, k).Cases, j)
             xCaseEnd == Add(parseTimeStamp(Index(r.xmlSuites, 0).TimeStamp),
                             secondsToDuration(xCase.Time))
         IN  Ok([EndTime |-> xCaseEnd,
                 Status |-> IF xCase.Failure # NULL THEN "FAILED" ELSE "PASSED"])

TestCaseResult(r, k, j) ==
    IF ~HasSuite(r, k) THEN SuitePanic(r)
    ELSE IF ~HasCase(r, k, j) THEN IndexPanic
    ELSE LET xSuite == Index(r.xmlSuites, k)
             suiteStart == parseTimeStamp(xSuite.TimeStamp)
             xCase == Index(xSuite.Cases, j)
             d == secondsToDuration(xCase.Time)
             xCaseEnd == Add(suiteStart, d)
             status == IF xCase.Failure # NULL THEN "FAILED" ELSE "PASSED"
         IN  Ok([EndTime |-> xCaseEnd, Status |-> status])

HasTestCaseFailure(r, k, j) ==
    IF ~HasSuite(r, k) THEN SuitePanic(r)
    ELSE IF ~HasCase(r, k, j) THEN IndexPanic
    ELSE Ok(Index(Index(r.xmlSuites, k).Cases, j).Failure # NULL)

TestCaseFailure(r, k, j) ==
    IF ~HasSuite(r, k) THEN SuitePanic(r)
    ELSE IF ~HasCase(r, k, j) THEN IndexPanic
    ELSE LET xSuite == Index(r.xmlSuites, k)
             suiteStart == parseTimeStamp(xSuite.TimeStamp)
             xCase == Index(xSuite.Cases, j)
             d == secondsToDuration(xCase.Time)
             xCaseEnd == Add(suiteStart, d)
         IN  IF xCase.Failure = NULL THEN NilPanic
             ELSE Ok([Time |-> xCaseEnd, Level |-> "ERROR",
                      Message |-> xCase.Failure.Message])

\* mutant: a case without failure gives an empty message
TestCaseFailureDetailsNilSafe(r, k, j) ==
    IF ~HasSuite(r, k) THEN SuitePanic(r)
    ELSE IF ~HasCase(r, k, j) THEN IndexPanic
    ELSE LET xSuite == Index(r.xmlSuites, k)
             xCase == Index(xSuite.Cases, j)
             xCaseEnd == Add(parseTimeStamp(xSuite.TimeStamp), secondsToDuration(xCase.Time))
         IN  Ok([Time |-> xCaseEnd, Level |-> "INFO",
                 Message |-> IF xCase.Failure = NULL THEN "" ELSE xCase.Failure.Details])

TestCaseFailureDetails(r, k, j) ==
    IF ~HasSuite(r, k) THEN SuitePanic(r)
    ELSE IF ~HasCase(r, k, j) THEN IndexPanic
    ELSE LET xSuite == Index(r.xmlSuites, k)
             suiteStart == parseTimeStamp(xSuite.TimeStamp)
             xCase == Index(xSuite.Cases, j)
             d == secondsToDuration(xCase.Time)
             xCaseEnd == Add(suiteStart, d)
         IN  IF xCase.Failure = NULL THEN NilPanic
             ELSE Ok([Time |-> xCaseEnd, Level |-> "INFO",
                      Message |-> xCase.Failure.Details])

-----------------------------------------------------------------------------
(* The caller: after LoadXMLReport has returned it calls the methods of the *)
(* handle it got, with indices in range or one past the end.  A panic ends  *)
(* the program.                                                             *)

SuiteArgs == IF report = NULL THEN {0} ELSE 0..Len(report.xmlSuites)

CaseArgs(k) ==
    IF HasSuite(report, k) THEN 0..Len(Index(report.xmlSuites, k).Cases) ELSE {0}

Called(op, args, out) ==
    /\ pc = "returned"
    /\ result' = [op |-> op, args |-> args, out |-> out]
    /\ pc' = IF IsPanic(out) THEN "panicked" ELSE pc
    /\ UNCHANGED loadVars

CallSuitesCount     == Called("SuitesCount", <<>>, SuitesCount(report))
CallLaunchStartTime == Called("LaunchStartTime", <<>>, LaunchStartTime(report))
CallLaunchEndTime   == Called("LaunchEndTime", <<>>, LaunchEndTime(report))

CallTesCaseCount ==
    \E k \in SuiteArgs : Called("TesCaseCount", <<k>>, TesCaseCount(report, k))
CallSuite ==
    \E k \in SuiteArgs : Called("Suite", <<k>>, Suite(report, k))
CallSuiteResult ==
    \E k \in SuiteArgs : Called("SuiteResult", <<k>>, SuiteResult(report, k))
CallTestCase ==
    \E k \in SuiteArgs : \E j \in CaseArgs(k) :
        Called("TestCase", <<k, j>>, TestCase(report, k, j))
CallTestCaseResult ==
    \E k \in SuiteArgs : \E j \in CaseArgs(k) :
        Called("TestCaseResult", <<k, j>>, TestCaseResult(report, k, j))
CallHasTestCaseFailure ==
    \E k \in SuiteArgs : \E j \in CaseArgs(k) :
        Called("HasTestCaseFailure", <<k, j>>, HasTestCaseFailure(report, k, j))
CallTestCaseFailure ==
    \E k \in SuiteArgs : \E j \in CaseArgs(k) :
        Called("TestCaseFailure", <<k, j>>, TestCaseFailure(report, k, j))
CallTestCaseFailureDetails ==
    \E k \in SuiteArgs : \E j \in CaseArgs(k) :
        Called("TestCaseFailureDetails", <<k, j>>, TestCaseFailureDetails(report, k, j))

-----------------------------------------------------------------------------
(* Specifications *)

Start(d, f) ==
    /\ dirName = d
    /\ fs = f
    /\ pc = "idle"
    /\ files = <<>>
    /\ i = 0
    /\ xSuites = <<>>
    /\ deferred = <<>>
    /\ openHandles = {}
    /\ openCalls = {}
    /\ readDirCalls = 0
    /\ report = NULL
    /\ err = NULL
    /\ result = [op |-> "none"]

\* an empty path, a directory that cannot be listed, a directory
FailingInputs == {<<"", Unlistable>>, <<"reports", Unlistable>>}

Init ==
    \E input \in FailingInputs \cup {<<"reports", Listable(l)>> : l \in LoaderDirs} :
        Start(input[1], input[2])

Next ==
    \/ ParseBegin
    \/ LoopBody
    \/ ParseEnd
    \/ CallSuitesCount
    \/ CallLaunchStartTime
    \/ CallLaunchEndTime

\* the loader over directories of every kind of entry, and the launch methods
Spec == Init /\ [][Next]_vars

FacadeInit ==
    \E input \in FailingInputs \cup {<<"reports", Listable(l)>> : l \in FacadeDirs} :
        Start(input[1], input[2])

FacadeNext ==
    \/ Next
    \/ CallTesCaseCount
    \/ CallSuite
    \/ CallSuiteResult
    \/ CallTestCase
    \/ CallTestCaseResult
    \/ CallHasTestCaseFailure
    \/ CallTestCaseFailure
    \/ CallTestCaseFailureDetails

\* the loader over detailed report files, and every method of the handle
FacadeSpec == FacadeInit /\ [][FacadeNext]_vars

-----------------------------------------------------------------------------
(* Properties *)

\* LoadXMLReport has returned (the caller may since have called methods)
Returned == pc \in {"returned", "panicked"}

\* LoadXMLReport has returned a handle and no error
Loaded == Returned /\ err = NULL /\ report # NULL

\* the suite indices in range
Suites == IF report = NULL THEN {} ELSE 0..(Len(report.xmlSuites) - 1)

\* the case indices in range for suite k
Cases(k) == 0..(Len(Index(report.xmlSuites, k).Cases) - 1)

\* the name ends in ".xml", letter for letter
EndsInDotXml(name) ==
    /\ Len(name) >= 4
    /\ name[Len(name) - 3] = "."
    /\ name[Len(name) - 2] = "x"
    /\ name[Len(name) - 1] = "m"
    /\ name[Len(name)] = "l"

\* the directory entry is a regular ".xml" file that opens, reads and decodes
Decodes(e) == ~e.isDir /\ EndsInDotXml(e.name) /\ e.fault = "none"

\* the positions of the directory entries that decode
DecodedEntries == {k \in 1..Len(fs.entries) : Decodes(fs.entries[k])}

\* C1: after a successful load the start times of the suites, as Suite(i)
\* reports them, never decrease with the index.
C1_SortedByStart ==
    Loaded =>
        \A a, b \in Suites :
            a < b => Suite(report, a).val.StartTime <= Suite(report, b).val.StartTime

\* C1 witness: a load has returned three suites of three different starts, one
\* of them from a malformed timestamp, that the directory listed out of order.
C1_Witness ==
    /\ Loaded
    /\ Len(report.xmlSuites) >= 3
    /\ \E a, b, c \in DecodedEntries :
          /\ a < b /\ b < c
          /\ fs.entries[a].content.TimeStamp = T2
          /\ fs.entries[b].content.TimeStamp = T1
          /\ fs.entries[c].content.TimeStamp = BadTimeStamp

\* C2: after a successful load the collection holds, suite for suite, exactly
\* the contents of the entries that are regular ".xml" files and open, read
\* and decode; SuitesCount() is the number of those entries.
C2_ExactlyTheDecodedFiles ==
    Loaded =>
        /\ SuitesCount(report) = Ok(Cardinality(DecodedEntries))
        /\ \A s \in {fs.entries[k].content : k \in DecodedEntries}
                \cup {report.xmlSuites[k] : k \in 1..Len(report.xmlSuites)} :
              Cardinality({k \in DecodedEntries : fs.entries[k].content = s})
                = Cardinality({k \in 1..Len(report.xmlSuites) : report.xmlSuites[k] = s})

\* C2 witness: a load has returned one suite from a directory that also held a
\* sub-directory named like a report and a report file that failed to decode.
C2_Witness ==
    /\ Loaded
    /\ SuitesCount(report) = Ok(1)
    /\ \E a, b \in 1..Len(fs.entries) :
          /\ fs.entries[a].isDir /\ EndsInDotXml(fs.entries[a].name)
          /\ ~fs.entries[b].isDir /\ fs.entries[b].fault = "decode"

\* C3: the call returns an error exactly when the path is empty or the
\* directory cannot be listed; then the handle is nil and no file was opened,
\* and with an empty path no listing was attempted; otherwise the handle is
\* not nil, whatever failed on the files.
C3_ErrorOnlyForDirectory ==
    Returned =>
        /\ (err # NULL) <=> (Len(dirName) = 0 \/ ~fs.listable)
        /\ err # NULL => report = NULL /\ openCalls = {}
        /\ Len(dirName) = 0 => readDirCalls = 0
        /\ err = NULL => report # NULL

\* C3 witness: a load has returned without error although one file failed to
\* open and another failed to read.
C3_Witness ==
    /\ Loaded
    /\ \E a, b \in 1..Len(fs.entries) :
          /\ ~NotReportFile(fs.entries[a]) /\ fs.entries[a].fault = "open"
          /\ ~NotReportFile(fs.entries[b]) /\ fs.entries[b].fault = "read"

\* C4: once LoadXMLReport has returned, no file handle is open.
C4_AllClosedOnReturn == Returned => openHandles = {}

\* C4 witness: a load has returned after opening a file it decoded, a file
\* whose decoding failed and a file whose reading failed.
C4_Witness ==
    /\ Returned
    /\ \E a, b, c \in openCalls :
          /\ Index(files, a).fault = "none"
          /\ Index(files, b).fault = "decode"
          /\ Index(files, c).fault = "read"

\* C5: at every point of the load at most one file handle is open.
C5_AtMostOneOpen == Cardinality(openHandles) <= 1

\* C6: SuiteResult(i) is SKIPPED when the test count is 0, else FAILED when
\* failures > 0 or errors > 0, else PASSED; its end time is the start time
\* Suite(i) reports plus the suite's duration.
C6_SuiteResult ==
    Loaded =>
        \A k \in Suites :
            LET xSuite == Index(report.xmlSuites, k)
                got == SuiteResult(report, k)
            IN  /\ ~IsPanic(got)
                /\ xSuite.Tests = 0 => got.val.Status = "SKIPPED"
                /\ xSuite.Tests # 0 /\ (xSuite.Failures > 0 \/ xSuite.Errors > 0)
                      => got.val.Status = "FAILED"
                /\ xSuite.Tests # 0 /\ ~(xSuite.Failures > 0 \/ xSuite.Errors > 0)
                      => got.val.Status = "PASSED"
                /\ got.val.EndTime
                      = Suite(report, k).val.StartTime + secondsToDuration(xSuite.Time)

\* C6 witness: SuiteResult was called on a suite of no tests whose failures
\* and errors are both positive, and gave SKIPPED.
C6_Witness ==
    /\ result.op = "SuiteResult"
    /\ ~IsPanic(result.out)
    /\ result.out.val.Status = "SKIPPED"
    /\ Index(report.xmlSuites, result.args[1]).Failures > 0
    /\ Index(report.xmlSuites, result.args[1]).Errors > 0

\* C7: with at least one suite loaded, LaunchEndTime() is the end time
\* SuiteResult reports for the last suite and LaunchStartTime() is the start
\* time Suite reports for suite 0, which no suite's start precedes.
C7_LaunchTimes ==
    Loaded /\ Suites # {} =>
        /\ LaunchEndTime(report)
              = Ok(SuiteResult(report, Len(report.xmlSuites) - 1).val.EndTime)
        /\ LaunchStartTime(report) = Ok(Suite(report, 0).val.StartTime)
        /\ \A k \in Suites :
              LaunchStartTime(report).val <= Suite(report, k).val.StartTime

\* C7 witness: LaunchEndTime was called and gave an instant earlier than the
\* end time of a suite before the last one.
C7_Witness ==
    /\ result.op = "LaunchEndTime"
    /\ ~IsPanic(result.out)
    /\ \E k \in Suites :
          /\ k < Len(report.xmlSuites) - 1
          /\ SuiteResult(report, k).val.EndTime > result.out.val

\* C8: TestCaseResult(i, j) ends at the start of suite i plus the duration of
\* case j, is FAILED exactly when HasTestCaseFailure(i, j) and PASSED
\* otherwise; TestCase(i, j) starts when Suite(i) starts.
C8_TestCaseResult ==
    Loaded =>
        \A k \in Suites : \A j \in Cases(k) :
            LET xSuite == Index(report.xmlSuites, k)
                xCase == Index(xSuite.Cases, j)
                got == TestCaseResult(report, k, j)
            IN  /\ ~IsPanic(got)
                /\ got.val.EndTime
                      = parseTimeStamp(xSuite.TimeStamp) + secondsToDuration(xCase.Time)
                /\ got.val.Status = "FAILED" <=> HasTestCaseFailure(report, k, j).val
                /\ got.val.Status \in {"FAILED", "PASSED"}
                /\ TestCase(report, k, j).val.StartTime = Suite(report, k).val.StartTime

\* C8 witness: TestCaseResult was called on the second case, 1.5 s long and
\* failed, of the second suite, which starts at 10:00:01 after a suite that
\* starts at 10:00:00, and gave FAILED at 10:00:02.5.
C8_Witness ==
    /\ result.op = "TestCaseResult"
    /\ result.args[1] = 1
    /\ result.args[2] = 1
    /\ Index(report.xmlSuites, 0).TimeStamp = T1
    /\ Index(report.xmlSuites, 1).TimeStamp = T2
    /\ result.out = Ok([EndTime |-> ((10 * 60 + 0) * 60 + 1) * 1000 + 1500,
                        Status |-> "FAILED"])

\* a method was called on a case in range
CalledOnCase(op) ==
    /\ result.op = op
    /\ HasCase(report, result.args[1], result.args[2])

\* C9: on a case without failure TestCaseFailure and TestCaseFailureDetails
\* panic, and the call made ends the program without a log message; on a
\* case with a failure they give the failure's message at error level and
\* its details at info level, at the end time TestCaseResult reports.
C9_FailureMessages ==
    /\ Loaded =>
          \A k \in Suites : \A j \in Cases(k) :
              LET xCase == Index(Index(report.xmlSuites, k).Cases, j)
                  end == TestCaseResult(report, k, j).val.EndTime
              IN  IF HasTestCaseFailure(report, k, j).val
                  THEN /\ TestCaseFailure(report, k, j)
                            = Ok([Time |-> end, Level |-> "ERROR",
                                  Message |-> xCase.Failure.Message])
                       /\ TestCaseFailureDetails(report, k, j)
                            = Ok([Time |-> end, Level |-> "INFO",
                                  Message |-> xCase.Failure.Details])
                  ELSE /\ IsPanic(TestCaseFailure(report, k, j))
                       /\ IsPanic(TestCaseFailureDetails(report, k, j))
    /\ (CalledOnCase("TestCaseFailure") \/ CalledOnCase("TestCaseFailureDetails"))
          /\ ~HasTestCaseFailure(report, result.args[1], result.args[2]).val
          => IsPanic(result.out) /\ pc = "panicked"

\* C9 witness: TestCaseFailureDetails was called on a case in range that has
\* no failure, and the program panicked.
C9_Witness ==
    /\ CalledOnCase("TestCaseFailureDetails")
    /\ ~HasTestCaseFailure(report, result.args[1], result.args[2]).val
    /\ pc = "panicked"

\* C10: a load over a listable directory none of whose entries decodes
\* returns a handle and no error; SuitesCount() is 0 on it, and
\* LaunchStartTime() and LaunchEndTime() panic with an index out of range.
C10_EmptyLoad ==
    Returned /\ Len(dirName) > 0 /\ fs.listable /\ DecodedEntries = {} =>
        /\ err = NULL
        /\ report # NULL
        /\ SuitesCount(report) = Ok(0)
        /\ LaunchStartTime(report) = IndexPanic
        /\ LaunchEndTime(report) = IndexPanic
        /\ result.op \in {"LaunchStartTime", "LaunchEndTime"}
              => result.out = IndexPanic /\ pc = "panicked"

\* C10 witness: LaunchStartTime was called after a successful load of a
\* directory whose only report files were skipped, and the program panicked.
C10_Witness ==
    /\ result.op = "LaunchStartTime"
    /\ pc = "panicked"
    /\ err = NULL
    /\ openCalls # {}
    /\ \E k \in 1..Len(fs.entries) : EndsInDotXml(fs.entries[k].name)

=============================================================================
